---- MODULE Spec2Model ----
(***************************************************************************)
(* candle/nested.py: the Package tree over nested lists, its attribute     *)
(* forwarding (__getattribute__ / wrap_attr / get_attr), apply_fn, and the *)
(* free functions flatten and nested_map.                                  *)
(*                                                                         *)
(* Every Python value is a record with a tag k:                            *)
(*   int / float leaves, list, Package, function, NotImplemented, and a    *)
(*   raised exception (k = "exc"), which every caller propagates.          *)
(***************************************************************************)
EXTENDS Integers, Sequences, FiniteSets, TLC

\* Largest size (number of leaves plus number of inner lists) of an input list.
MaxSize == 4

\* Leaf values of the inputs of the one-tree operations.
LeafValues == {1, 2}

(***************************************************************************)
(* Python values                                                           *)
(***************************************************************************)
PyInt(n) == [k |-> "int", v |-> n]

PyFloat(n) == [k |-> "float", v |-> n]

PyList(c) == [k |-> "list", c |-> c]

NotImplemented == [k |-> "NotImplementedType"]

None == [k |-> "NoneType"]

Exc(e) == [k |-> "exc", e |-> e]

IsExc(v) == v.k = "exc"

isinstance(v, t) == v.k = t

type(v) == v.k

callable(v) == v.k \in {"function", "method"}

\* An instance of Package: the two fields __init__ assigns.
PackageObj(children, children_type) ==
    [k |-> "Package", children |-> children, children_type |-> children_type]

RECURSIVE Package(_, _)
RECURSIVE _build_children(_)
RECURSIVE _discover_type(_)
RECURSIVE reify(_, _)
RECURSIVE flatten(_)
RECURSIVE nested_map(_, _)
RECURSIVE Call(_, _)
RECURSIVE wrap_attr(_, _, _)
RECURSIVE get_attr(_, _, _, _)
RECURSIVE get_attr_loop(_, _, _, _, _, _)
RECURSIVE _apply_fn(_, _)
RECURSIVE _apply_fn_loop(_, _, _, _)
RECURSIVE __getattribute__(_, _)
RECURSIVE PyAdd(_, _)

(***************************************************************************)
(* Construction and type discovery                                         *)
(***************************************************************************)
\* for child in self.children: the first child decides; a Package child
\* recurses, a leaf gives its type; no child at all falls off the loop (None).
_discover_type(children) ==
    IF Len(children.c) = 0 THEN "None"
    ELSE IF isinstance(children.c[1], "Package")
         THEN _discover_type(children.c[1].children)
         ELSE type(children.c[1])

\* children_list.append(Package(child) if isinstance(child, list) else child),
\* child by child; the first construction that raises ends the loop.
_build_children(children) ==
    IF Len(children.c) = 0 THEN PyList(<<>>)
    ELSE LET child == Head(children.c)
             built == IF isinstance(child, "list") THEN Package(child, "None") ELSE child
         IN  IF IsExc(built) THEN built
             ELSE LET rest == _build_children(PyList(Tail(children.c)))
                  IN  IF IsExc(rest) THEN rest ELSE PyList(<<built>> \o rest.c)

\* Package.__init__ with the mutant's assert: len(children) != 0 alone.
Package_NoTypeEscape(children, children_type) ==
    IF Len(children.c) = 0
    THEN Exc("AssertionError")
    ELSE LET built == _build_children(children)
         IN  IF IsExc(built) THEN built
             ELSE PackageObj(built,
                             IF children_type # "None" THEN children_type
                             ELSE _discover_type(built))

\* Package.__init__: assert len(children) != 0 or children_type, then the
\* children and the leaf type (given, else discovered). "None" is no type.
Package(children, children_type) ==
    IF ~(Len(children.c) # 0 \/ children_type # "None")
    THEN Exc("AssertionError")
    ELSE LET built == _build_children(children)
         IN  IF IsExc(built) THEN built
             ELSE PackageObj(built,
                             IF children_type # "None" THEN children_type
                             ELSE _discover_type(built))

(***************************************************************************)
(* Free functions on plain nested lists                                    *)
(***************************************************************************)
\* items.extend(flatten(elem)) for a list, items.append(elem) otherwise.
flatten(nested_list) ==
    IF Len(nested_list.c) = 0 THEN PyList(<<>>)
    ELSE LET elem == Head(nested_list.c)
             rest == flatten(PyList(Tail(nested_list.c)))
         IN  IF isinstance(elem, "list")
             THEN PyList(flatten(elem).c \o rest.c)
             ELSE PyList(<<elem>> \o rest.c)

\* nested_map with the mutant's comprehension: nested lists are kept as they are.
nested_map_TopLevelOnly(fn, nested_list) ==
    PyList([i \in 1..Len(nested_list.c) |->
              LET e == nested_list.c[i]
              IN  IF isinstance(e, "list") THEN e ELSE Call(fn, <<e>>)])

\* [nested_map(fn, e) if isinstance(e, list) else fn(e) for e in nested_list]
nested_map(fn, nested_list) ==
    PyList([i \in 1..Len(nested_list.c) |->
              LET e == nested_list.c[i]
              IN  IF isinstance(e, "list") THEN nested_map(fn, e) ELSE Call(fn, <<e>>)])

(***************************************************************************)
(* reify                                                                   *)
(***************************************************************************)
\* reify with the mutant's comprehension: a sub-tree is reified flat.
reify_FlatChildren(self, flat) ==
    LET reified == PyList([i \in 1..Len(self.children.c) |->
                             LET item == self.children.c[i]
                             IN  IF isinstance(item, "Package")
                                 THEN reify(item, TRUE) ELSE item])
    IN  IF flat THEN flatten(reified) ELSE reified

\* [item.reify() if isinstance(item, Package) else item for item in children],
\* flattened when flat is set.
reify(self, flat) ==
    LET reified == PyList([i \in 1..Len(self.children.c) |->
                             LET item == self.children.c[i]
                             IN  IF isinstance(item, "Package")
                                 THEN reify(item, FALSE) ELSE item])
    IN  IF flat THEN flatten(reified) ELSE reified

(***************************************************************************)
(* The leaf types: what getattr finds on int and float                     *)
(***************************************************************************)
LeafTypes == {"int", "float"}

\* Names that are methods of the leaf types (callable on the type).
LeafMethods == {"__add__", "__radd__"}

\* Names that are data attributes of the leaf types (not callable on the type).
LeafFields == {"real", "imag"}

\* getattr(self.children_type, name): what line 68 hands to callable().
getattr_type(children_type, name) ==
    IF children_type \in LeafTypes /\ name \in LeafMethods
    THEN [k |-> "function", name |-> "slot wrapper", attr |-> name]
    ELSE IF children_type \in LeafTypes /\ name \in LeafFields
         THEN [k |-> "getset_descriptor", attr |-> name]
         ELSE Exc("AttributeError")

\* getattr(element, attr_name) on a leaf: a bound method, or the field's value.
getattr(element, attr_name) ==
    IF type(element) \in LeafTypes /\ attr_name \in LeafMethods
    THEN [k |-> "method", self |-> element, attr |-> attr_name]
    ELSE IF type(element) \in LeafTypes /\ attr_name = "real"
         THEN element
         ELSE IF type(element) \in LeafTypes /\ attr_name = "imag"
              THEN [k |-> type(element), v |-> 0]
              ELSE Exc("AttributeError")

\* element.__add__(other) and element.__radd__(other) of int and float, called
\* directly: one operand; an int adds an int, a float adds an int or a float,
\* and any other operand gives NotImplemented (no exception, no reflected try).
LeafMethodCall(self, attr, args) ==
    IF Len(args) # 1 THEN Exc("TypeError")
    ELSE LET other == args[1]
         IN  IF type(self) = "int" /\ type(other) = "int"
             THEN PyInt(self.v + other.v)
             ELSE IF type(self) = "float" /\ type(other) \in LeafTypes
                  THEN PyFloat(self.v + other.v)
                  ELSE NotImplemented

(***************************************************************************)
(* Attribute forwarding                                                    *)
(***************************************************************************)
\* The names __getattribute__ resolves on the Package itself.
OwnNames == {"children", "children_type", "__getattribute__", "_discover_type",
             "_build_children", "reify", "apply_fn", "_apply_fn", "singleton"}

\* The first positional argument that is a Package, 0 when there is none.
FirstPackageArg(args) ==
    IF \E j \in 1..Len(args) : isinstance(args[j], "Package")
    THEN CHOOSE j \in 1..Len(args) :
            /\ isinstance(args[j], "Package")
            /\ \A h \in 1..(j - 1) : ~isinstance(args[h], "Package")
    ELSE 0

\* get_attr's loop with the mutant's check: an argument tree whose child count
\* differs from self's, in either direction, raises IndexError.
get_attr_loop_StrictLen(self, attr_name, elements, args, use_pkg_iter, i) ==
    IF use_pkg_iter /\ Len(args) # Len(elements.c) THEN Exc("IndexError")
    ELSE IF i > Len(elements.c) THEN PyList(<<>>)
    ELSE LET element  == elements.c[i]
             new_args == IF use_pkg_iter THEN <<args[i]>> ELSE args
             attr     == getattr(element, attr_name)
             new_elem == IF isinstance(element, "Package")
                         THEN Call(wrap_attr(self, attr_name, element.children), new_args)
                         ELSE IF IsExc(attr) THEN attr
                         ELSE IF callable(attr) THEN Call(attr, new_args)
                         ELSE attr
         IN  IF IsExc(new_elem) THEN new_elem
             ELSE LET rest == get_attr_loop(self, attr_name, elements, args,
                                            use_pkg_iter, i + 1)
                  IN  IF IsExc(rest) THEN rest ELSE PyList(<<new_elem>> \o rest.c)

\* get_attr's loop with the mutant's index: new_args is (args[0],) for every
\* element.
get_attr_loop_FirstArgOnly(self, attr_name, elements, args, use_pkg_iter, i) ==
    IF i > Len(elements.c) THEN PyList(<<>>)
    ELSE IF use_pkg_iter /\ i > Len(args) THEN Exc("IndexError")
    ELSE LET element  == elements.c[i]
             new_args == IF use_pkg_iter THEN <<args[1]>> ELSE args
             attr     == getattr(element, attr_name)
             new_elem == IF isinstance(element, "Package")
                         THEN Call(wrap_attr(self, attr_name, element.children), new_args)
                         ELSE IF IsExc(attr) THEN attr
                         ELSE IF callable(attr) THEN Call(attr, new_args)
                         ELSE attr
         IN  IF IsExc(new_elem) THEN new_elem
             ELSE LET rest == get_attr_loop(self, attr_name, elements, args,
                                            use_pkg_iter, i + 1)
                  IN  IF IsExc(rest) THEN rest ELSE PyList(<<new_elem>> \o rest.c)

\* The loop of get_attr from element i on: new_args is (args[i],) under
\* use_pkg_iter (an index past the end raises IndexError) and args otherwise;
\* a Package element calls what wrap_attr returns for its children, a leaf
\* calls its attribute when callable and keeps the attribute value otherwise.
\* The first exception ends the loop.
get_attr_loop(self, attr_name, elements, args, use_pkg_iter, i) ==
    IF i > Len(elements.c) THEN PyList(<<>>)
    ELSE IF use_pkg_iter /\ i > Len(args) THEN Exc("IndexError")
    ELSE LET element  == elements.c[i]
             new_args == IF use_pkg_iter THEN <<args[i]>> ELSE args
             attr     == getattr(element, attr_name)
             new_elem == IF isinstance(element, "Package")
                         THEN Call(wrap_attr(self, attr_name, element.children), new_args)
                         ELSE IF IsExc(attr) THEN attr
                         ELSE IF callable(attr) THEN Call(attr, new_args)
                         ELSE attr
         IN  IF IsExc(new_elem) THEN new_elem
             ELSE LET rest == get_attr_loop(self, attr_name, elements, args,
                                            use_pkg_iter, i + 1)
                  IN  IF IsExc(rest) THEN rest ELSE PyList(<<new_elem>> \o rest.c)

\* get_attr(*args): if some argument is a Package, args become that Package's
\* children and are taken index-wise; the new elements are wrapped by Package().
get_attr(self, attr_name, elements, args) ==
    LET j            == FirstPackageArg(args)
        use_pkg_iter == j # 0
        the_args     == IF use_pkg_iter THEN args[j].children.c ELSE args
        new_elems    == get_attr_loop(self, attr_name, elements, the_args, use_pkg_iter, 1)
    IN  IF IsExc(new_elems) THEN new_elems ELSE Package(new_elems, "None")

\* wrap_attr: get_attr itself when the name is callable on self.children_type,
\* else the result of calling get_attr() right away.
wrap_attr(self, attr_name, elements) ==
    LET on_type == getattr_type(self.children_type, attr_name)
    IN  IF IsExc(on_type) THEN on_type
        ELSE IF callable(on_type)
             THEN [k |-> "function", name |-> "get_attr", self |-> self,
                   attr_name |-> attr_name, elements |-> elements]
             ELSE get_attr(self, attr_name, elements, <<>>)

\* Package.__getattribute__: the Package's own names are looked up on the
\* object, every other name is forwarded to the leaves.
__getattribute__(self, name) ==
    IF name \in OwnNames
    THEN IF name = "children" THEN self.children
         ELSE IF name = "children_type" THEN [k |-> "type", name |-> self.children_type]
         ELSE [k |-> "function", name |-> name, self |-> self]
    ELSE wrap_attr(self, name, self.children)

\* def __add__(self, other): return self.__getattribute__("__add__")(other)
__add__(self, other) == Call(__getattribute__(self, "__add__"), <<other>>)

\* def __radd__(self, other): return self.__getattribute__("__radd__")(other)
__radd__(self, other) == Call(__getattribute__(self, "__radd__"), <<other>>)

\* The expression a + b: type(a).__add__(a, b) first; when that is
\* NotImplemented, the reflected type(b).__radd__(b, a) of a different type;
\* TypeError when no operand implements it.
PyAdd(a, b) ==
    IF isinstance(a, "Package") THEN __add__(a, b)
    ELSE LET r == LeafMethodCall(a, "__add__", <<b>>)
         IN  IF r # NotImplemented THEN r
             ELSE IF isinstance(b, "Package") THEN __radd__(b, a)
             ELSE IF type(b) \in LeafTypes /\ type(b) # type(a)
                  THEN LET rr == LeafMethodCall(b, "__radd__", <<a>>)
                       IN  IF rr # NotImplemented THEN rr ELSE Exc("TypeError")
                  ELSE Exc("TypeError")

\* f(*args) for the callables of the model: the closure get_attr, a bound leaf
\* method, operator.add, lambda e: e + k. Calling anything else (a Package, in
\* line 62) raises TypeError; a raised exception in place of f propagates.
Call(f, args) ==
    IF IsExc(f) THEN f
    ELSE IF f.k = "method" THEN LeafMethodCall(f.self, f.attr, args)
    ELSE IF f.k = "function" /\ f.name = "get_attr"
         THEN get_attr(f.self, f.attr_name, f.elements, args)
    ELSE IF f.k = "function" /\ f.name = "operator.add"
         THEN IF Len(args) = 2 THEN PyAdd(args[1], args[2]) ELSE Exc("TypeError")
    ELSE IF f.k = "function" /\ f.name = "lambda e: e + k"
         THEN IF Len(args) = 1 THEN PyAdd(args[1], f.scalar) ELSE Exc("TypeError")
    ELSE Exc("TypeError")

\* operator.add, the function handed to apply_fn.
operator_add == [k |-> "function", name |-> "operator.add"]

\* lambda e: e + k, the function handed to nested_map.
lambda_add(scalar) == [k |-> "function", name |-> "lambda e: e + k", scalar |-> scalar]

(***************************************************************************)
(* apply_fn                                                                *)
(***************************************************************************)
\* Length of zip(elements, *args): the shortest of the zipped lists.
ZipLen(elements, args) ==
    CHOOSE n \in 0..Len(elements.c) :
        /\ \A j \in 1..Len(args) : n <= Len(args[j].c)
        /\ \/ n = Len(elements.c)
           \/ \E j \in 1..Len(args) : n = Len(args[j].c)

\* [arg.children for arg in p_args]: an argument that is no Package has no
\* attribute children.
ChildrenOf(p_args) ==
    IF \E j \in 1..Len(p_args) : ~isinstance(p_args[j], "Package")
    THEN Exc("AttributeError")
    ELSE [k |-> "tuple", c |-> [j \in 1..Len(p_args) |-> p_args[j].children]]

\* The loop of _apply_fn over zip(elements, *args) from tuple i to tuple n.
_apply_fn_loop(function, elements, args, i) ==
    IF i > ZipLen(elements, args) THEN PyList(<<>>)
    ELSE LET e      == elements.c[i]
             p_args == [j \in 1..Len(args) |-> args[j].c[i]]
             sub    == ChildrenOf(p_args)
             datum  == IF isinstance(e, "Package")
                       THEN IF IsExc(sub) THEN sub
                            ELSE _apply_fn(function, <<e.children>> \o sub.c)
                       ELSE Call(function, <<e>> \o p_args)
         IN  IF IsExc(datum) THEN datum
             ELSE LET rest == _apply_fn_loop(function, elements, args, i + 1)
                  IN  IF IsExc(rest) THEN rest ELSE PyList(<<datum>> \o rest.c)

\* _apply_fn(function, elements, *args), lists == <<elements>> \o args.
_apply_fn(function, lists) ==
    LET data == _apply_fn_loop(function, Head(lists), Tail(lists), 1)
    IN  IF IsExc(data) THEN data ELSE Package(data, "None")

\* apply_fn(function, *args)
apply_fn(self, function, args) ==
    LET sub == ChildrenOf(args)
    IN  IF IsExc(sub) THEN sub ELSE _apply_fn(function, <<self.children>> \o sub.c)

(***************************************************************************)
(* Inputs                                                                  *)
(***************************************************************************)
RECURSIVE Forests(_, _)
\* The sequences of items (leaves and nested lists) of total size n, a leaf
\* and an inner list counting one each.
Forests(n, leaves) ==
    IF n = 0 THEN {<<>>}
    ELSE UNION { { <<it>> \o rest :
                     it \in (IF s = 1 THEN leaves ELSE {})
                            \cup { PyList(c) : c \in Forests(s - 1, leaves) },
                     rest \in Forests(n - s, leaves) } : s \in 1..n }

\* The plain nested lists of size at most n over the given leaves; empty
\* lists at any depth are among them.
ListsUpTo(n, leaves) == { PyList(c) : c \in UNION { Forests(m, leaves) : m \in 0..n } }

RECURSIVE RelabelSeq(_, _, _)
\* The items of c with the leaves renumbered next, next+1, ... (times step) in
\* depth-first order, so that every leaf of a list is distinct.
RelabelSeq(c, next, step) ==
    IF Len(c) = 0 THEN [c |-> <<>>, next |-> next]
    ELSE LET h == IF isinstance(Head(c), "list")
                  THEN LET sub == RelabelSeq(Head(c).c, next, step)
                       IN  [item |-> PyList(sub.c), next |-> sub.next]
                  ELSE [item |-> PyInt(next * step), next |-> next + 1]
             rest == RelabelSeq(Tail(c), h.next, step)
         IN  [c |-> <<h.item>> \o rest.c, next |-> rest.next]

Relabel(l, step) == PyList(RelabelSeq(l.c, 1, step).c)

\* [1, [2, 3], 4] and [1, [2, [3, 4]], 5]
Example134 == PyList(<<PyInt(1), PyList(<<PyInt(2), PyInt(3)>>), PyInt(4)>>)

ExampleDeep ==
    PyList(<<PyInt(1), PyList(<<PyInt(2), PyList(<<PyInt(3), PyInt(4)>>)>>), PyInt(5)>>)

\* [1, [2, 3]] and [1, [2, 3, 4]]
Example123 == PyList(<<PyInt(1), PyList(<<PyInt(2), PyInt(3)>>)>>)

Example1234 == PyList(<<PyInt(1), PyList(<<PyInt(2), PyInt(3), PyInt(4)>>)>>)

\* Inputs of the one-tree operations.
NestedLists ==
    ListsUpTo(MaxSize, { PyInt(n) : n \in LeafValues }) \cup {Example134, ExampleDeep}

\* Inputs of the two-tree operations: every shape, leaves 1, 2, 3, ... on the
\* left and 10, 20, 30, ... on the right.
LeftLists ==
    { Relabel(l, 1) : l \in ListsUpTo(MaxSize, {PyInt(0)}) } \cup {Example123, Example1234}

RightLists ==
    { Relabel(l, 10) : l \in ListsUpTo(MaxSize, {PyInt(0)}) } \cup {Example123, Example1234}

\* The scalar operands: ints, and a float.
Scalars == {PyInt(1), PyInt(10), PyFloat(1)}

\* children_type as passed to Package(): absent, or int.
TypeArgs == {"None", "int"}

(***************************************************************************)
(* State: the inputs, the call made, and what the caller holds afterwards  *)
(***************************************************************************)
VARIABLES
    x,      \* the nested list the tree p is built from
    y,      \* the nested list the tree q is built from (None: no second tree)
    op,     \* the call made, "init" before it
    ct,     \* the children_type passed to Package()
    arg,    \* the call's own argument: flat, k, the attribute name
    p,      \* Package(x, ct), or the exception it raised
    q,      \* Package(y, ct), or the exception it raised
    r,      \* what the call returned, or the exception raised
    res     \* r reified, or the exception raised

vars == <<x, y, op, ct, arg, p, q, r, res>>

\* r.reify(); an exception raised earlier is what the caller sees instead.
Reified(v) == IF IsExc(v) THEN v ELSE reify(v, FALSE)

Init ==
    /\ x \in NestedLists
    /\ y = None
    /\ op = "init" /\ ct = "None" /\ arg = None
    /\ p = None /\ q = None /\ r = None /\ res = None

InitZip ==
    /\ x \in LeftLists
    /\ y \in RightLists
    /\ op = "init" /\ ct = "None" /\ arg = None
    /\ p = None /\ q = None /\ r = None /\ res = None

\* p = Package(x, t)
Build ==
    /\ op = "init"
    /\ \E t \in TypeArgs :
        /\ op' = "build" /\ ct' = t /\ arg' = None
        /\ p' = Package(x, t)
        /\ r' = p' /\ res' = None
    /\ UNCHANGED <<x, y, q>>

\* Package(x, t).reify(flat)
Reify ==
    /\ op = "init"
    /\ \E t \in TypeArgs, flat \in BOOLEAN :
        /\ op' = "reify" /\ ct' = t /\ arg' = [k |-> "bool", v |-> flat]
        /\ p' = Package(x, t)
        /\ r' = p'
        /\ res' = IF IsExc(p') THEN p' ELSE reify(p', flat)
    /\ UNCHANGED <<x, y, q>>

\* (Package(x, t) + k).reify()
AddScalar ==
    /\ op = "init"
    /\ \E t \in TypeArgs, scalar \in Scalars :
        /\ op' = "add_scalar" /\ ct' = t /\ arg' = scalar
        /\ p' = Package(x, t)
        /\ r' = IF IsExc(p') THEN p' ELSE PyAdd(p', scalar)
        /\ res' = Reified(r')
    /\ UNCHANGED <<x, y, q>>

\* Package(x, t).real.reify(), Package(x, t).imag.reify()
GetField ==
    /\ op = "init"
    /\ \E t \in TypeArgs, name \in LeafFields :
        /\ op' = "get_field" /\ ct' = t /\ arg' = [k |-> "str", v |-> name]
        /\ p' = Package(x, t)
        /\ r' = IF IsExc(p') THEN p' ELSE __getattribute__(p', name)
        /\ res' = Reified(r')
    /\ UNCHANGED <<x, y, q>>

\* Package(x, t).apply_fn(lambda e: e + k).reify(): no other tree
ApplyFnAlone ==
    /\ op = "init"
    /\ \E t \in TypeArgs, scalar \in Scalars :
        /\ op' = "apply_fn_alone" /\ ct' = t /\ arg' = scalar
        /\ p' = Package(x, t)
        /\ r' = IF IsExc(p') THEN p' ELSE apply_fn(p', lambda_add(scalar), <<>>)
        /\ res' = Reified(r')
    /\ UNCHANGED <<x, y, q>>

\* flatten(nested_map(lambda e: e + k, x))
MapFlatten ==
    /\ op = "init"
    /\ \E scalar \in Scalars :
        /\ op' = "map_flatten" /\ arg' = scalar
        /\ r' = nested_map(lambda_add(scalar), x)
        /\ res' = flatten(r')
    /\ UNCHANGED <<x, y, ct, p, q>>

\* (Package(x, t) + Package(y, t)).reify()
AddTree ==
    /\ op = "init"
    /\ \E t \in TypeArgs :
        /\ op' = "add_tree" /\ ct' = t
        /\ p' = Package(x, t)
        /\ q' = IF IsExc(p') THEN None ELSE Package(y, t)
        /\ r' = IF IsExc(p') THEN p' ELSE IF IsExc(q') THEN q' ELSE PyAdd(p', q')
        /\ res' = Reified(r')
    /\ UNCHANGED <<x, y, arg>>

\* Package(x, t).apply_fn(operator.add, Package(y, t)).reify()
ApplyFn ==
    /\ op = "init"
    /\ \E t \in TypeArgs :
        /\ op' = "apply_fn" /\ ct' = t
        /\ p' = Package(x, t)
        /\ q' = IF IsExc(p') THEN None ELSE Package(y, t)
        /\ r' = IF IsExc(p') THEN p' ELSE IF IsExc(q') THEN q'
                ELSE apply_fn(p', operator_add, <<q'>>)
        /\ res' = Reified(r')
    /\ UNCHANGED <<x, y, arg>>

Next == Build \/ Reify \/ AddScalar \/ GetField \/ ApplyFnAlone \/ MapFlatten

NextZip == AddTree \/ ApplyFn

\* The operations on one tree and on plain lists.
Spec == Init /\ [][Next]_vars

\* The operations on two trees.
SpecZip == InitZip /\ [][NextZip]_vars

(***************************************************************************)
(* Vocabulary of the properties                                            *)
(***************************************************************************)
RECURSIVE HasEmptyList(_)
\* Some list nested inside l (at any depth below the top) is empty.
HasEmptyList(l) ==
    \E i \in 1..Len(l.c) :
        /\ isinstance(l.c[i], "list")
        /\ (Len(l.c[i].c) = 0 \/ HasEmptyList(l.c[i]))

\* Some constructor call of Package(l, t) is handed an empty sequence and no
\* leaf type: the top one, or the one of a nested list.
EmptyWithoutType(l, t) == (Len(l.c) = 0 /\ t = "None") \/ HasEmptyList(l)

RECURSIVE Isomorphic(_, _)
\* Identical branching and arity at every depth.
Isomorphic(a, b) ==
    /\ Len(a.c) = Len(b.c)
    /\ \A i \in 1..Len(a.c) :
        IF isinstance(a.c[i], "list")
        THEN isinstance(b.c[i], "list") /\ Isomorphic(a.c[i], b.c[i])
        ELSE ~isinstance(b.c[i], "list")

RECURSIVE ZipSum(_, _)
\* The elementwise sum of two isomorphic lists of ints.
ZipSum(a, b) ==
    PyList([i \in 1..Len(a.c) |->
              IF isinstance(a.c[i], "list") THEN ZipSum(a.c[i], b.c[i])
              ELSE PyInt(a.c[i].v + b.c[i].v)])

RECURSIVE CountsDiverge(_, _)
\* The child counts of a and b differ at some corresponding depth.
CountsDiverge(a, b) ==
    \/ Len(a.c) # Len(b.c)
    \/ \E i \in 1..Len(a.c) :
        /\ i <= Len(b.c)
        /\ isinstance(a.c[i], "list") /\ isinstance(b.c[i], "list")
        /\ CountsDiverge(a.c[i], b.c[i])

RECURSIVE ArgShorter(_, _)
\* b has fewer children than a at some corresponding depth.
ArgShorter(a, b) ==
    \/ Len(a.c) > Len(b.c)
    \/ \E i \in 1..Len(a.c) :
        /\ i <= Len(b.c)
        /\ isinstance(a.c[i], "list") /\ isinstance(b.c[i], "list")
        /\ ArgShorter(a.c[i], b.c[i])

RECURSIVE Shape(_)
\* The nesting of l, every leaf blanked.
Shape(l) ==
    PyList([i \in 1..Len(l.c) |->
              IF isinstance(l.c[i], "list") THEN Shape(l.c[i]) ELSE None])

RECURSIVE FieldValues(_, _)
\* l with every leaf replaced by its attribute name, the nesting kept.
FieldValues(name, l) ==
    PyList([i \in 1..Len(l.c) |->
              IF isinstance(l.c[i], "list") THEN FieldValues(name, l.c[i])
              ELSE getattr(l.c[i], name)])

Built(v) == isinstance(v, "Package")

(***************************************************************************)
(* C1: round trip                                                          *)
(***************************************************************************)
\* C1 as stated: for any plain nested list x, Package(x).reify() returns a
\* nested list equal to x.
C1_RoundTripAnyList ==
    (op = "reify" /\ ~arg.v) => res = x

\* C1, amended: Package(x).reify() returns x whenever x holds no empty list
\* below the top and is itself non-empty or built with an explicit leaf type;
\* for every other x the construction raises AssertionError and there is
\* nothing to reify.
C1_RoundTrip ==
    (op = "reify" /\ ~arg.v) =>
        IF EmptyWithoutType(x, ct) THEN res = Exc("AssertionError") ELSE res = x

\* A ragged, nested list came back from reify() as it went in.
C1_Witness ==
    op = "reify" /\ ~arg.v /\ x = Example134 /\ res = Example134

(***************************************************************************)
(* C2: scalar broadcast                                                    *)
(***************************************************************************)
\* C2: for any tree p built from x and any non-tree scalar k, reify(p + k)
\* equals nested_map(lambda e: e + k, x).
C2_ScalarBroadcast ==
    (op = "add_scalar" /\ Built(p)) => res = nested_map(lambda_add(arg), x)

(***************************************************************************)
(* C3: structural zip                                                      *)
(***************************************************************************)
\* C3: for trees p, q built from lists x, y of isomorphic shape, reify(p + q)
\* has the shape of x and holds the sum of the two leaves at every position.
C3_StructuralZip ==
    (op = "add_tree" /\ Built(p) /\ Built(q) /\ Isomorphic(x, y)) => res = ZipSum(x, y)

C6_ApplyFnMismatchRaises ==
    (op = "apply_fn" /\ Built(p) /\ Built(q) /\ CountsDiverge(x, y)) => IsExc(r)

(***************************************************************************)
(* C7: empty construction                                                  *)
(***************************************************************************)
\* C7: Package(x, t) fails (and yields no tree) when x is empty and no leaf
\* type is given; an empty x with a leaf type, and a non-empty x, pass the
\* check. The only failure a construction can end in is this check, met by
\* some constructor call (the top one or a nested list's) that is handed an
\* empty sequence and no leaf type.
C7_EmptyConstruction ==
    op = "build" =>
        /\ (Len(x.c) = 0 /\ ct = "None") => r = Exc("AssertionError")
        /\ (Len(x.c) = 0 /\ ct # "None") =>
               r = PackageObj(PyList(<<>>), ct)
        /\ (Len(x.c) # 0 /\ ~HasEmptyList(x)) => Built(r)
        /\ IsExc(r) => (r = Exc("AssertionError") /\ EmptyWithoutType(x, ct))

\* An empty list with no leaf type was refused.
C7_Witness ==
    op = "build" /\ Len(x.c) = 0 /\ ct = "None" /\ r = Exc("AssertionError")

(***************************************************************************)
(* C8: forwarding of a non-invocable attribute                             *)
(***************************************************************************)
\* C8, for a tree that holds at least one child: an attribute that is not
\* callable on the leaf type is read from every leaf of the tree, nested
\* sub-trees included, into a new tree of the same shape.
C8_FieldForwarding ==
    (op = "get_field" /\ Built(p) /\ Len(x.c) # 0) =>
        (Built(r) /\ res = FieldValues(arg.v, x))

C10_ShapePreserved ==
    (op \in {"add_tree", "apply_fn"} /\ Built(r)) =>
        (Shape(res) = Shape(x) /\ Reified(p) = x)

====
